---- MODULE Spec2Model ----
(***************************************************************************)
(* Model of src/server/services/graph.js: the stale-while-revalidate       *)
(* connector (BifrostCache, PwConnector) behind a per-Connector DataLoader.*)
(*                                                                         *)
(* One action is one uninterrupted run of JavaScript on the event loop:    *)
(* a tick in which a request calls get() and its loader then dispatches    *)
(* the queue (the synchronous part of every _loadUrl of the batch), a      *)
(* process.nextTick callback, the completion of one upstream request, a    *)
(* new request with its new Connector, or the clock moving on.             *)
(***************************************************************************)
EXTENDS Integers, Sequences, FiniteSets, TLC

\* ---------------------------------------------------------------- bounds
MaxPromises == 2
MaxBatch == 2
MaxTicks == 1

\* ------------------------------------------------------------- constants
\* this._CACHE_LIFETIME = 30 * 60 * 1000
CACHE_LIFETIME == 30 * 60 * 1000

\* The longest parameter mapping given to get(args).
MaxParams == 2

\* const ROOT_URL
ROOT_URL == "https://psychonautwiki.org/w/api.php"

\* const qsDefaults: an object is the sequence of its properties in
\* insertion order, which is the order Object.keys and querystring.encode use.
qsDefaults == <<[name |-> "action", value |-> "ask"],
               [name |-> "format", value |-> "json"]>>

\* The URLs (cache keys) and the PwConnector instances of the model.
Urls == {"A", "B"}
Connectors == {"c1", "c2"}

\* How far Date.now() moves in one step of the clock.
Deltas == {CACHE_LIFETIME - 1, CACHE_LIFETIME, CACHE_LIFETIME + 1}

VARIABLES
    now,          \* Date.now()
    ticks,        \* number of clock steps taken (bounded by MaxTicks)
    backend,      \* BifrostCache._backend: url -> {ts, val} or no entry
    writer,       \* history: which path wrote the current entry of a url
    processMap,   \* BifrostCache._processMap: the urls marked being refreshed
    promiseCache, \* DataLoader._promiseCache of each connector: url -> promise
    promises,     \* the promises load() created for the live connectors, each
                  \* with its _loadUrl coroutine (conn "-": the slot is free)
    lastGet,      \* what the tick that just ran saw: its latest get() that
                  \* followed an earlier get() for the same url on its
                  \* connector, with the promise load() returned
    nextTickQ,    \* process.nextTick callbacks not run yet (urls to refresh)
    refreshOps,   \* url -> number of _markAndRefreshItemAsync awaiting a fetch
    args,         \* the parameter mappings two calls of get(args) are given
    cacheKeys     \* the urls get() builds from them (<<>>: not built yet)

vars == <<now, ticks, backend, writer, processMap, promiseCache,
          promises, lastGet, nextTickQ, refreshOps, args, cacheKeys>>

\* ------------------------------------------------------------------ data
NoBody == [url |-> "-", n |-> 0]
NoResponse == [statusCode |-> 0, body |-> NoBody]
NoEntry == [has |-> FALSE, ts |-> 0, val |-> NoResponse]
NoResult == [tag |-> "none", url |-> "-", n |-> 0]

\* The full response of the upstream for `url`; n tells the responses for
\* one url apart.
Response(url, n) == [statusCode |-> 200, body |-> [url |-> url, n |-> n]]

\* The response a request for `url` completes with: one that differs from
\* the response the cache holds for that url.
NextResponse(b, url) == Response(url, IF b[url].val.body.n = 1 THEN 2 ELSE 1)

NoPromise == [conn |-> "-", key |-> "-", state |-> "free", result |-> NoResult,
              batch |-> 0, item |-> "none", kind |-> "none", by |-> "none",
              age |-> 0, val |-> NoBody]
NoGet == [conn |-> "-", key |-> "-", p |-> 0, prev |-> 0, prevState |-> "none"]
Slots == 1..MaxPromises

\* A promise settled with a body / with the error of the request for `url`.
Value(body) == [tag |-> "ok", url |-> body.url, n |-> body.n]
FetchError(url) == [tag |-> "err", url |-> url, n |-> 0]

\* ---------------------------------------------------------- BifrostCache
\* Faulty variant of BifrostCacheGet: a lookup that reports an entry stale from the lifetime on.
BifrostCacheGetAtLifetime(b, key, t) ==
    IF ~b[key].has
    THEN [found |-> FALSE, val |-> NoResponse, requireRefresh |-> FALSE]
    ELSE [found |-> TRUE, val |-> b[key].val,
          requireRefresh |-> (t - b[key].ts) >= CACHE_LIFETIME]

\* Faulty variant of BifrostCacheGet: one that reports a key it does not
\* hold as an expired entry.
BifrostCacheGetAbsentExpired(b, key, t) ==
    IF ~b[key].has
    THEN [found |-> TRUE, val |-> NoResponse, requireRefresh |-> TRUE]
    ELSE [found |-> TRUE, val |-> b[key].val,
          requireRefresh |-> (t - b[key].ts) > CACHE_LIFETIME]

\* BifrostCache.get(key) at time t: null, or {val, requireRefresh}.
BifrostCacheGet(b, key, t) ==
    IF ~b[key].has
    THEN [found |-> FALSE, val |-> NoResponse, requireRefresh |-> FALSE]
    ELSE [found |-> TRUE, val |-> b[key].val,
          requireRefresh |-> (t - b[key].ts) > CACHE_LIFETIME]

\* Faulty variant of isBeingRefreshed: one that never sees the mark.
isBeingRefreshedNever(pm, key) == FALSE

\* BifrostCache.isBeingRefreshed(key)
isBeingRefreshed(pm, key) == key \in pm

\* Faulty variant of markBeingRefreshed: one that can clear the mark but
\* never sets it.
markBeingRefreshedNeverSet(pm, key, flag) ==
    IF ~flag THEN pm \ {key} ELSE pm

\* Faulty variant of markBeingRefreshed: one whose unmarking clears the
\* mark of every key.
markBeingRefreshedClearingAll(pm, key, flag) ==
    IF ~flag THEN {} ELSE pm \cup {key}

\* BifrostCache.markBeingRefreshed(key, isBeingRefreshed)
markBeingRefreshed(pm, key, flag) ==
    IF ~flag THEN pm \ {key} ELSE pm \cup {key}

\* Faulty variant of BifrostCacheAdd: a store that keeps one entry only.
BifrostCacheAddEvicting(b, key, val, t) ==
    [u \in Urls |-> IF u = key THEN [has |-> TRUE, ts |-> t, val |-> val]
                    ELSE NoEntry]

\* BifrostCache.add(key, val) at time t
BifrostCacheAdd(b, key, val, t) ==
    [b EXCEPT ![key] = [has |-> TRUE, ts |-> t, val |-> val]]

\* ------------------------------------------------------------ DataLoader
\* Faulty variant of CachedPromise: a loader that memoizes nothing.
CachedPromiseNever(pc, c, url) == 0

\* load(key): the memoized promise of the key on this loader, 0 if none.
CachedPromise(pc, c, url) == pc[c][url]

\* The promise an earlier get(url) on connector c received: the memoized one,
\* else one that was rejected (and so cleared from the memo), else 0.
EarlierPromise(ps, pc, c, url) ==
    LET r == {i \in Slots : ps[i].conn = c /\ ps[i].key = url
                              /\ ps[i].state = "rejected"}
    IN IF pc[c][url] # 0 THEN pc[c][url]
       ELSE IF r # {} THEN CHOOSE i \in r : \A j \in r : i <= j
       ELSE 0

\* Faulty variant of ClearKeys: a failed dispatch that leaves the memo as it is.
ClearKeysNever(pc, c, ks) == pc

\* failedDispatch: loader.clear(key) for every key of the failed batch.
ClearKeys(pc, c, ks) ==
    [pc EXCEPT ![c] = [u \in Urls |-> IF u \in ks THEN 0 ELSE pc[c][u]]]

\* The promises dispatched together as batch `bid`.
BatchOf(ps, bid) == {i \in Slots : ps[i].batch = bid}

\* Promise.all over the batch, then DataLoader's delivery: nothing once the
\* batch is settled; every promise of the batch resolved with its own value
\* when every _loadUrl has returned.
ResolveBatch(ps, bid) ==
    LET m == BatchOf(ps, bid)
    IN IF \E i \in m : ps[i].state # "pending" THEN ps
       ELSE IF \A i \in m : ps[i].item = "done"
       THEN [i \in Slots |->
                IF i \in m
                THEN [ps[i] EXCEPT !.state = "resolved", !.result = Value(ps[i].val)]
                ELSE ps[i]]
       ELSE ps

\* Promise.all rejects on the first rejection and failedDispatch rejects
\* every promise of the batch with that one error.
RejectBatch(ps, bid, err) ==
    LET m == BatchOf(ps, bid)
    IN IF \E i \in m : ps[i].state # "pending" THEN ps
       ELSE [i \in Slots |->
                IF i \in m
                THEN [ps[i] EXCEPT !.state = "rejected", !.result = err]
                ELSE ps[i]]

\* ----------------------------------------------------------- PwConnector
\* _loadUrl -> _getCacheIfNeeded(url) up to its first yield, for promise pid
\* of batch bid.  st carries what the batch has changed so far.
GetCacheIfNeeded(st, pid, bid, b, t) ==
    LET p == st.ps[pid]
        cacheState == BifrostCacheGet(b, p.key, t)
        refresh == cacheState.requireRefresh /\ ~isBeingRefreshed(st.pm, p.key)
    IN IF ~cacheState.found
       THEN [st EXCEPT !.ps[pid] =
                [p EXCEPT !.state = "pending", !.batch = bid,
                          !.item = "fetching", !.kind = "miss"]]
       ELSE [pm |-> IF refresh THEN markBeingRefreshed(st.pm, p.key, TRUE) ELSE st.pm,
             ntq |-> IF refresh THEN Append(st.ntq, p.key) ELSE st.ntq,
             ps |-> [st.ps EXCEPT ![pid] =
                [p EXCEPT !.state = "pending", !.batch = bid, !.item = "done",
                          !.kind = IF ~cacheState.requireRefresh THEN "fresh"
                                   ELSE IF refresh THEN "stale" ELSE "refreshing",
                          !.by = writer[p.key],
                          !.age = t - b[p.key].ts,
                          !.val = cacheState.val.body]]]

\* fetch(urls): urls.map(url => this._loadUrl(url)), left to right.
RECURSIVE LoadUrls(_, _, _, _, _)
LoadUrls(q, st, bid, b, t) ==
    IF q = <<>> THEN st
    ELSE LoadUrls(Tail(q), GetCacheIfNeeded(st, Head(q), bid, b, t), bid, b, t)

\* ------------------------------------------------------------------ Init
\* sharedBifrostCache and the connectors as constructed.
InitConnector ==
    /\ now = 0
    /\ ticks = 0
    /\ backend = [u \in Urls |-> NoEntry]
    /\ writer = [u \in Urls |-> "none"]
    /\ processMap = {}
    /\ promiseCache = [c \in Connectors |-> [u \in Urls |-> 0]]
    /\ promises = [i \in Slots |-> NoPromise]
    /\ lastGet = NoGet
    /\ nextTickQ = <<>>
    /\ refreshOps = [u \in Urls |-> 0]

Init ==
    /\ InitConnector
    /\ args = <<>>
    /\ cacheKeys = <<>>

\* --------------------------------------------------------------- actions
\* Nothing but the nextTick queue runs while it holds a callback.
Idle == nextTickQ = <<>>

\* The connectors are interchangeable: of two unused ones the first is taken.
InUse(c) == \E i \in Slots : promises[i].conn = c

\* DataLoader.load(url) on connector c.  ld carries the loader and what the
\* tick has done so far: the promises (ps), the memo (pc), the loader's queue
\* (q), the latest repeated get (lg), and whether a slot was there (ok).
LoaderLoad(ld, c, url) ==
    LET cached == CachedPromise(ld.pc, c, url)
        prev == EarlierPromise(ld.ps, ld.pc, c, url)
        free == {i \in Slots : ld.ps[i].conn = "-"}
        pid == CHOOSE i \in free : \A j \in free : i <= j
        got(p) == [conn |-> c, key |-> url, p |-> p, prev |-> prev,
                   prevState |-> ld.ps[prev].state]
    IN IF cached # 0 THEN [ld EXCEPT !.lg = got(cached)]
       ELSE IF free = {} THEN [ld EXCEPT !.ok = FALSE]
       ELSE [ps |-> [ld.ps EXCEPT ![pid] =
                        [NoPromise EXCEPT !.conn = c, !.key = url, !.state = "queued"]],
             pc |-> [ld.pc EXCEPT ![c][url] = pid],
             q |-> Append(ld.q, pid),
             lg |-> IF prev = 0 THEN ld.lg ELSE got(pid),
             ok |-> ld.ok]

\* The calls of get() of one tick, in order.
RECURSIVE Loads(_, _, _)
Loads(urls, ld, c) ==
    IF urls = <<>> THEN ld
    ELSE Loads(Tail(urls), LoaderLoad(ld, c, Head(urls)), c)

\* The urls one tick asks for.
Asks == UNION {[1..n -> Urls] : n \in 1..MaxBatch}

\* One tick of a request: PwConnector.get(args) -> this._loader.load(url) for
\* each url, then dispatchQueue(loader) runs the batch function on the queue.
Get(c, urls) ==
    /\ Idle
    /\ (c = "c2" /\ ~InUse(c)) => InUse("c1")
    /\ LET ld == Loads(urls, [ps |-> promises, pc |-> promiseCache, q |-> <<>>,
                              lg |-> NoGet, ok |-> TRUE], c)
           bid == Head(ld.q)
           st == LoadUrls(ld.q, [pm |-> processMap, ntq |-> nextTickQ, ps |-> ld.ps],
                          bid, backend, now)
       IN /\ ld.ok
          /\ lastGet' = ld.lg
          /\ promiseCache' = ld.pc
          /\ IF ld.q = <<>>
             THEN UNCHANGED <<promises, processMap, nextTickQ>>
             ELSE /\ processMap' = st.pm
                  /\ nextTickQ' = st.ntq
                  /\ promises' = ResolveBatch(st.ps, bid)
    /\ UNCHANGED <<args, cacheKeys>>
    /\ UNCHANGED <<now, ticks, backend, writer, refreshOps>>

\* app.post handler: the next request gets a new Connector (and a new
\* loader); the finished request's promises, all settled, are dropped.
NewConnector(c) ==
    /\ Idle
    /\ InUse(c)
    /\ \A i \in Slots :
          promises[i].conn = c => /\ promises[i].state \in {"resolved", "rejected"}
                                  /\ promises[i].item # "fetching"
    /\ promiseCache' = [promiseCache EXCEPT ![c] = [u \in Urls |-> 0]]
    /\ promises' = [i \in Slots |->
                      IF promises[i].conn = c THEN NoPromise ELSE promises[i]]
    /\ lastGet' = NoGet
    /\ UNCHANGED <<args, cacheKeys>>
    /\ UNCHANGED <<now, ticks, backend, writer, processMap, nextTickQ, refreshOps>>

\* The miss-path request of promise pid succeeds:
\* _fetchRefreshedCacheItem adds the response, _getCacheIfNeeded returns res.body.
FetchOk(pid) ==
    /\ Idle
    /\ promises[pid].item = "fetching"
    /\ LET url == promises[pid].key
           response == NextResponse(backend, url)
           ps == [promises EXCEPT ![pid].item = "done", ![pid].val = response.body]
       IN /\ backend' = BifrostCacheAdd(backend, url, response, now)
          /\ writer' = [writer EXCEPT ![url] = "miss"]
          /\ promises' = ResolveBatch(ps, promises[pid].batch)
    /\ lastGet' = NoGet
    /\ UNCHANGED <<args, cacheKeys>>
    /\ UNCHANGED <<now, ticks, processMap, promiseCache, nextTickQ,
                   refreshOps>>

\* The miss-path request of promise pid fails: _loadUrl rethrows.
FetchFail(pid) ==
    /\ Idle
    /\ promises[pid].item = "fetching"
    /\ LET url == promises[pid].key
           bid == promises[pid].batch
           ps == [promises EXCEPT ![pid].item = "failed"]
           settled == \E i \in BatchOf(promises, bid) : promises[i].state # "pending"
       IN /\ promises' = RejectBatch(ps, bid, FetchError(url))
          /\ promiseCache' =
                IF settled THEN promiseCache
                ELSE ClearKeys(promiseCache, promises[pid].conn,
                               {promises[i].key : i \in BatchOf(promises, bid)})
    /\ lastGet' = NoGet
    /\ UNCHANGED <<args, cacheKeys>>
    /\ UNCHANGED <<now, ticks, backend, writer, processMap, nextTickQ,
                   refreshOps>>

\* The process.nextTick callback of _unwindMarkAndRefreshItem:
\* _markAndRefreshItemAsync(url) issues its request.
RefreshStart ==
    /\ nextTickQ # <<>>
    /\ refreshOps' = [refreshOps EXCEPT ![Head(nextTickQ)] = @ + 1]
    /\ nextTickQ' = Tail(nextTickQ)
    /\ lastGet' = NoGet
    /\ UNCHANGED <<args, cacheKeys>>
    /\ UNCHANGED <<now, ticks, backend, writer, processMap, promiseCache,
                   promises>>

\* The request of a background refresh succeeds: add, then unmark.
RefreshOk(url) ==
    /\ Idle
    /\ refreshOps[url] > 0
    /\ backend' = BifrostCacheAdd(backend, url, NextResponse(backend, url), now)
    /\ writer' = [writer EXCEPT ![url] = "refresh"]
    /\ processMap' = markBeingRefreshed(processMap, url, FALSE)
    /\ refreshOps' = [refreshOps EXCEPT ![url] = @ - 1]
    /\ lastGet' = NoGet
    /\ UNCHANGED <<args, cacheKeys>>
    /\ UNCHANGED <<now, ticks, promiseCache, promises, nextTickQ>>

\* The request of a background refresh fails: the coroutine throws at the
\* yield* and never reaches markBeingRefreshed(url, false).
RefreshFail(url) ==
    /\ Idle
    /\ refreshOps[url] > 0
    /\ refreshOps' = [refreshOps EXCEPT ![url] = @ - 1]
    /\ lastGet' = NoGet
    /\ UNCHANGED <<args, cacheKeys>>
    /\ UNCHANGED <<now, ticks, backend, writer, processMap, promiseCache,
                   promises, nextTickQ>>

\* Date.now() moves on.
Tick(d) ==
    /\ Idle
    /\ ticks < MaxTicks
    /\ now' = now + d
    /\ ticks' = ticks + 1
    /\ lastGet' = NoGet
    /\ UNCHANGED <<args, cacheKeys>>
    /\ UNCHANGED <<backend, writer, processMap, promiseCache, promises,
                   nextTickQ, refreshOps>>

Next ==
    \/ \E c \in Connectors, urls \in Asks : Get(c, urls)
    \/ \E c \in Connectors : NewConnector(c)
    \/ \E pid \in Slots : FetchOk(pid)
    \/ \E pid \in Slots : FetchFail(pid)
    \/ RefreshStart
    \/ \E url \in Urls : RefreshOk(url)
    \/ \E url \in Urls : RefreshFail(url)
    \/ \E d \in Deltas : Tick(d)

Spec == Init /\ [][Next]_vars

\* ------------------------------------------------------- the key of get()
\* The names and values a caller puts into args.
ParamNames == {"action", "query", "limit"}
ParamValues == {"ask", "1"}

Names(obj) == {obj[i].name : i \in DOMAIN obj}

\* The objects a caller can build: properties in the order they were set,
\* no name twice.
Objects ==
    {obj \in UNION {[1..n -> [name : ParamNames, value : ParamValues]] :
                        n \in 0..MaxParams} :
        \A i, j \in DOMAIN obj : obj[i].name = obj[j].name => i = j}

\* _.defaults(object, source): every property of source the object lacks is
\* assigned to it, so it comes after the properties the object has.
RECURSIVE Defaults(_, _)
Defaults(obj, source) ==
    IF source = <<>> THEN obj
    ELSE Defaults(IF Head(source).name \in Names(obj) THEN obj
                  ELSE Append(obj, Head(source)),
                  Tail(source))

\* querystring.encode(obj): name=value of each property in the order of
\* Object.keys(obj), joined by & (names and values here need no escaping).
RECURSIVE QuerystringEncode(_)
QuerystringEncode(obj) ==
    IF obj = <<>> THEN ""
    ELSE Head(obj).name \o "=" \o Head(obj).value
         \o (IF Tail(obj) = <<>> THEN "" ELSE "&" \o QuerystringEncode(Tail(obj)))

\* PwConnector.get(args): the url handed to this._loader.load.
CacheKey(obj) == ROOT_URL \o "?" \o QuerystringEncode(Defaults(obj, qsDefaults))

InitKey ==
    /\ InitConnector
    /\ args \in Objects \X Objects
    /\ cacheKeys = <<>>

\* Two calls of get(), one with each mapping.
GetKeys ==
    /\ cacheKeys = <<>>
    /\ cacheKeys' = <<CacheKey(args[1]), CacheKey(args[2])>>
    /\ UNCHANGED <<now, ticks, backend, writer, processMap, promiseCache,
                   promises, lastGet, nextTickQ, refreshOps, args>>

NextKey == GetKeys

SpecKey == InitKey /\ [][NextKey]_vars

\* ============================================================ properties
\* The background refreshes of url that are outstanding: scheduled with
\* process.nextTick and not run yet, or awaiting their request.
Scheduled(q, url) == Cardinality({i \in DOMAIN q : q[i] = url})
Outstanding(url) == Scheduled(nextTickQ, url) + refreshOps[url]

\* C1 -- Single-flight refresh: in every reachable state at most one
\* background refresh of a url is outstanding (scheduled or in flight), and
\* its RefreshFlag is then set; and no step adds a refresh for a url whose
\* RefreshFlag is set, whichever Connector the stale read comes through.
C1_SingleFlightRefresh ==
    /\ [](\A url \in Urls :
            /\ Outstanding(url) <= 1
            /\ Outstanding(url) = 1 => url \in processMap)
    /\ [][\A url \in Urls :
            url \in processMap => Outstanding(url)' <= Outstanding(url)]_vars

\* C1 witness: a stale read found the RefreshFlag set (and scheduled nothing)
\* while the one refresh another stale read started is in flight.
C1_Witness ==
    \E i \in Slots :
        /\ promises[i].kind = "refreshing"
        /\ refreshOps[promises[i].key] = 1
        /\ nextTickQ = <<>>

\* A step in which a get of url performs its lookup and finds the entry
\* stale: a promise slot free before the step holds such a lookup after it.
StaleRead(url) ==
    \E i \in Slots :
        /\ promises[i].state = "free"
        /\ promises'[i].key = url
        /\ promises'[i].kind \in {"stale", "refreshing"}

\* C2 -- Refresh failure re-arm (as the specification states it): a step in
\* which the background refresh of url completes with a failure leaves the
\* RefreshFlag of url cleared, and a stale read of url made while no refresh
\* of url is outstanding schedules a new one.
C2_RefreshFailureReArm ==
    [][\A url \in Urls :
          /\ RefreshFail(url) => url \notin processMap'
          /\ (StaleRead(url) /\ Outstanding(url) = 0) => Outstanding(url)' = 1]_vars

\* The promise slots a step hands out: free before it, a lookup after it.
Issued(i) == promises[i].state = "free" /\ promises'[i].state # "free"

\* C3 -- Non-blocking stale read (as the specification states it): a get
\* whose lookup finds the entry stale is settled in the step of its lookup,
\* before any fetch completes, with the body that was cached when it was
\* issued, and the refresh it triggers has not been issued in that step.
C3_NonBlockingStaleRead ==
    [][\A i \in Slots :
          (Issued(i) /\ promises'[i].kind \in {"stale", "refreshing"}) =>
              /\ promises'[i].state = "resolved"
              /\ promises'[i].result = Value(backend[promises'[i].key].val.body)
              /\ refreshOps' = refreshOps]_vars

\* The promises of connector c for url that are not settled yet.
Unsettled(c, url) ==
    {i \in Slots : /\ promises[i].conn = c
                   /\ promises[i].key = url
                   /\ promises[i].state \in {"queued", "pending"}}

\* C4 -- Coalescer, pending case: a get(url) made on a Connector while an
\* earlier get(url) on that Connector is not settled (queued in the same tick,
\* or dispatched and pending) receives the promise of the earlier get, hence
\* its eventual value or error; and a Connector never has two unsettled
\* promises for one url, so the two gets share one lookup and one fetch.
C4_CoalescerPending ==
    /\ lastGet.prevState \in {"queued", "pending"} => lastGet.p = lastGet.prev
    /\ \A c \in Connectors, url \in Urls : Cardinality(Unsettled(c, url)) <= 1

\* C4 witness: the second get(url) of a tick was given the promise the first
\* one queued, and that promise is now waiting for the one fetch of the miss.
C4_Witness ==
    /\ lastGet.prevState = "queued"
    /\ lastGet.p = lastGet.prev
    /\ promises[lastGet.p].state = "pending"
    /\ promises[lastGet.p].item = "fetching"
    /\ Cardinality({i \in Slots : promises[i].state # "free"}) = 1

C6_ColdPath ==
    /\ [](\A i \in Slots :
            (promises[i].kind = "miss" /\ promises[i].item = "done") =>
                /\ promises[i].state # "rejected"
                /\ promises[i].state = "resolved" =>
                       promises[i].result = Value(promises[i].val))
    /\ [][\A pid \in Slots :
            FetchOk(pid) =>
                LET url == promises[pid].key
                IN /\ promises'[pid].val = NextResponse(backend, url).body
                   /\ backend'[url] = [has |-> TRUE, ts |-> now,
                                       val |-> NextResponse(backend, url)]
                   /\ ~BifrostCacheGet(backend', url, now).requireRefresh]_vars

\* C7 -- Miss-path failure (as the specification states it): the step in
\* which the fetch of a get on an uncached url fails leaves that get rejected
\* with the error of that fetch, and leaves the CacheStore and the
\* RefreshTracker as they were.
C7_MissPathFailure ==
    [][\A pid \in Slots :
          FetchFail(pid) =>
              /\ promises'[pid].state = "rejected"
              /\ promises'[pid].result = FetchError(promises[pid].key)
              /\ backend' = backend
              /\ processMap' = processMap]_vars

\* C8 -- Refresh success propagation (as the specification states it): the
\* step in which a background refresh of url succeeds overwrites the entry
\* with the new response, inserted at the time of the step, and leaves the
\* RefreshFlag cleared; and a get whose lookup finds, within the lifetime, an
\* entry written by a refresh schedules no refresh, is never rejected and
\* returns the body of that entry.
C8_RefreshSuccessPropagation ==
    /\ [][\A url \in Urls :
            RefreshOk(url) =>
                /\ backend'[url] = [has |-> TRUE, ts |-> now,
                                    val |-> NextResponse(backend, url)]
                /\ url \notin processMap']_vars
    /\ [][\A i \in Slots :
            (Issued(i) /\ promises'[i].kind = "fresh" /\ promises'[i].by = "refresh") =>
                /\ promises'[i].val = backend[promises'[i].key].val.body
                /\ Scheduled(nextTickQ', promises'[i].key) = 0]_vars
    /\ [](\A i \in Slots :
            (promises[i].kind = "fresh" /\ promises[i].by = "refresh") =>
                /\ promises[i].state # "rejected"
                /\ promises[i].state = "resolved" =>
                       promises[i].result = Value(promises[i].val))

\* C9 -- TTL boundary: every lookup that finds an entry reports it stale
\* exactly when the age of the entry at the lookup, now - insertedAt, is
\* strictly greater than 1,800,000 ms; at 1,800,000 ms or less it is fresh.
C9_TTLBoundary ==
    \A i \in Slots :
        promises[i].kind \in {"fresh", "stale", "refreshing"} =>
            /\ promises[i].kind \in {"stale", "refreshing"} <=> promises[i].age > 1800000
            /\ promises[i].kind = "fresh" <=> promises[i].age <= 1800000

\* C9 witness: a lookup found an entry aged exactly 30 minutes and reported it
\* fresh.
C9_Witness ==
    \E i \in Slots : promises[i].kind = "fresh" /\ promises[i].age = 1800000

\* C10 -- Fresh hit has no side effects (as the specification states it): a
\* get whose lookup finds the entry fresh starts no fetch, schedules no
\* refresh of its url, leaves every entry of the CacheStore and the
\* RefreshFlag of its url as they were, is never rejected, and returns the
\* body of the entry it found.
C10_FreshHitNoSideEffects ==
    /\ [][\A i \in Slots :
            (Issued(i) /\ promises'[i].kind = "fresh") =>
                LET url == promises'[i].key
                IN /\ promises'[i].item = "done"
                   /\ promises'[i].val = backend[url].val.body
                   /\ Scheduled(nextTickQ', url) = Scheduled(nextTickQ, url)
                   /\ backend' = backend
                   /\ (url \in processMap') <=> (url \in processMap)
                   /\ refreshOps' = refreshOps]_vars
    /\ [](\A i \in Slots :
            promises[i].kind = "fresh" =>
                /\ promises[i].state # "rejected"
                /\ promises[i].state = "resolved" =>
                       promises[i].result = Value(promises[i].val))

\* C11 -- No eviction: a url that has an entry has one after every step, and
\* a step changes the entry of a url (creates or overwrites it) only if it is
\* the success of a miss-path fetch or of a background refresh of that url.
C11_NoEviction ==
    [][\A url \in Urls :
          /\ backend[url].has => backend'[url].has
          /\ backend'[url] # backend[url] =>
                \/ RefreshOk(url)
                \/ \E pid \in Slots : promises[pid].key = url /\ FetchOk(pid)]_vars

\* C11 witness: an entry that was overwritten by a later fetch and has then
\* outlived its lifetime is still there.
C11_Witness ==
    \E url \in Urls :
        /\ backend[url].has
        /\ backend[url].val.body.n = 2
        /\ now - backend[url].ts > CACHE_LIFETIME

\* The name/value pairs a mapping stands for once the defaults are merged in.
Merged(obj) ==
    LET m == Defaults(obj, qsDefaults) IN {m[i] : i \in DOMAIN m}

\* C12 -- Key canonicalization (as the specification states it): two
\* parameter mappings that hold the same name/value pairs after merging with
\* the defaults, in whatever order the pairs were supplied, get the same
\* cache key.
C12_KeyCanonicalization ==
    (cacheKeys # <<>> /\ Merged(args[1]) = Merged(args[2])) =>
        cacheKeys[1] = cacheKeys[2]

\* The upstream requests of a key that are in progress: the miss-path
\* requests of _getCacheIfNeeded and the requests of background refreshes.
Fetching(url) == {i \in Slots : promises[i].key = url /\ promises[i].item = "fetching"}

InProgress(url) == Cardinality(Fetching(url)) + refreshOps[url]

\* C13 -- One fetch in progress per key (as the specification states it): in
\* every reachable state at most one upstream request of a given key is in
\* progress, miss-path requests and background refreshes counted together,
\* whichever Connector the gets came through.
C13_OneFetchPerKey ==
    \A url \in Urls : InProgress(url) <= 1

\* ---------------------------------------------------------------- fairness
\* What the event loop and the assumption that every issued request completes
\* guarantee: a queued process.nextTick callback runs, and a request that is
\* in progress completes, with a response or with an error.
Fairness ==
    /\ WF_vars(RefreshStart)
    /\ \A url \in Urls : WF_vars(RefreshOk(url) \/ RefreshFail(url))
    /\ \A pid \in Slots : WF_vars(FetchOk(pid) \/ FetchFail(pid))

SpecFair == Init /\ [][Next]_vars /\ Fairness

\* C14 -- Refresh slot never deadlocks (as the specification states it): if
\* every issued request eventually completes, with success or with failure,
\* then whenever the RefreshFlag of a key is set it is eventually cleared.
C14_RefreshSlotNeverDeadlocks ==
    \A url \in Urls : isBeingRefreshed(processMap, url) ~> ~isBeingRefreshed(processMap, url)

\* The state of a key as the cache holds it at time t: what BifrostCache.get
\* and isBeingRefreshed answer for it.
KeyState(b, pm, url, t) ==
    LET cacheState == BifrostCacheGet(b, url, t)
        flag == isBeingRefreshed(pm, url)
    IN IF ~cacheState.found /\ ~flag THEN "EMPTY"
       ELSE IF cacheState.found /\ ~cacheState.requireRefresh /\ ~flag THEN "FRESH"
       ELSE IF cacheState.found /\ cacheState.requireRefresh /\ ~flag THEN "STALE_IDLE"
       ELSE IF cacheState.found /\ cacheState.requireRefresh /\ flag THEN "STALE_REFRESHING"
       ELSE "NONE"

\* C15 -- Per-key state machine (as the specification states it): every
\* reachable state of a key is EMPTY, FRESH, STALE_IDLE or STALE_REFRESHING,
\* and a step changes the state of a key only along the edges EMPTY -> FRESH,
\* FRESH -> STALE_IDLE, STALE_IDLE -> STALE_REFRESHING,
\* STALE_REFRESHING -> FRESH and STALE_REFRESHING -> STALE_IDLE.
C15_PerKeyStateMachine ==
    /\ [](\A url \in Urls : KeyState(backend, processMap, url, now) # "NONE")
    /\ [][\A url \in Urls :
             LET s == KeyState(backend, processMap, url, now)
                 t == KeyState(backend', processMap', url, now')
             IN s # t => <<s, t>> \in
                    {<<"EMPTY", "FRESH">>, <<"FRESH", "STALE_IDLE">>,
                     <<"STALE_IDLE", "STALE_REFRESHING">>,
                     <<"STALE_REFRESHING", "FRESH">>,
                     <<"STALE_REFRESHING", "STALE_IDLE">>}]_vars

\* A step in which a get of url finds the entry stale and not being
\* refreshed, and so decides to serve it and refresh it in the background.
StaleServe(url) ==
    \E i \in Slots :
        /\ promises[i].state = "free"
        /\ promises'[i].key = url
        /\ promises'[i].kind = "stale"

\* C16 -- Flag is set atomically with the stale-serve decision: the step in
\* which a get finds a key stale and not refreshing also sets the key's
\* RefreshFlag and only queues the refresh; the request of the refresh is
\* issued in a later step, with the flag set; and from the scheduling of a
\* refresh until its completion the flag stays set.
C16_FlagSetAtomically ==
    [][\A url \in Urls :
          /\ StaleServe(url) =>
                /\ url \notin processMap
                /\ url \in processMap'
                /\ Scheduled(nextTickQ', url) = Scheduled(nextTickQ, url) + 1
                /\ refreshOps'[url] = refreshOps[url]
          /\ refreshOps'[url] > refreshOps[url] =>
                /\ Scheduled(nextTickQ, url) > 0
                /\ url \in processMap /\ url \in processMap'
          /\ Outstanding(url)' > 0 => url \in processMap']_vars

\* C16 witness: the request of a background refresh is in progress, the get
\* that served the stale entry and scheduled it has its body, and the flag is
\* set.
C16_Witness ==
    \E i \in Slots :
        /\ promises[i].kind = "stale"
        /\ promises[i].state = "resolved"
        /\ refreshOps[promises[i].key] = 1
        /\ promises[i].key \in processMap

\* A background refresh of url has failed: the flag is set and no refresh of
\* url is queued or in progress.
RefreshFailed(url) == isBeingRefreshed(processMap, url) /\ Outstanding(url) = 0

\* C17 -- Failed refresh leaves the entry intact (as the specification states
\* it): a step in which the background refresh of url fails leaves the entry
\* of url (value and insertion time) as it was and settles no get, so no
\* caller receives its error; and a get of url made after the failure returns
\* the body that was cached before the refresh.
C17_FailedRefreshLeavesEntry ==
    [][\A url \in Urls :
          /\ RefreshFail(url) => /\ backend'[url] = backend[url]
                                 /\ promises' = promises
          /\ RefreshFailed(url) =>
                \A i \in Slots :
                    (Issued(i) /\ promises'[i].key = url) =>
                        /\ promises'[i].state = "resolved"
                        /\ promises'[i].result = Value(backend[url].val.body)]_vars

\* C18 -- Hung refresh freezes the key (as the specification states it):
\* while the request of a background refresh of url is in progress and does
\* not complete, the RefreshFlag of url stays set, no stale read of url
\* schedules another refresh, and every get of url returns the cached body
\* in the step of its lookup, without waiting for anything.
C18_HungRefreshFreezesKey ==
    [][\A url \in Urls :
          (refreshOps[url] > 0 /\ refreshOps'[url] >= refreshOps[url]) =>
              /\ url \in processMap /\ url \in processMap'
              /\ Outstanding(url)' = Outstanding(url)
              /\ \A i \in Slots :
                    (Issued(i) /\ promises'[i].key = url) =>
                        /\ promises'[i].state = "resolved"
                        /\ promises'[i].result = Value(backend[url].val.body)]_vars

\* C19 -- Implicit invariant: in every reachable state a key whose
\* RefreshFlag is set, or which has a background refresh queued or in
\* progress, has an entry in the store; so no flag is set and no refresh is
\* scheduled for a key that was never fetched with success.
C19_FlagImpliesEntry ==
    \A url \in Urls :
        (isBeingRefreshed(processMap, url) \/ Outstanding(url) > 0) => backend[url].has

\* C19 witness: a stale read has just set the flag of a key and queued its
\* refresh, and the key has its entry, while the other key has none.
C19_Witness ==
    \E url \in Urls :
        /\ isBeingRefreshed(processMap, url)
        /\ Scheduled(nextTickQ, url) = 1
        /\ backend[url].has
        /\ \E other \in Urls \ {url} : ~backend[other].has

\* The entry and the RefreshFlag of every key but url are left as they were.
OthersUnchanged(url) ==
    \A other \in Urls \ {url} :
        /\ backend'[other] = backend[other]
        /\ isBeingRefreshed(processMap', other) = isBeingRefreshed(processMap, other)

\* C20 -- Implicit key isolation: every step performed for a key (a get, the
\* completion of its miss-path request with success or failure, the
\* scheduling and the start of its refresh, the completion of its refresh
\* with success or failure) leaves the entry and the RefreshFlag of every
\* other key unchanged, a tick that gets several keys leaves the keys it does
\* not name unchanged, and the response stored under a key is a response
\* fetched for that key.
C20_KeyIsolation ==
    /\ [](\A url \in Urls : backend[url].has => backend[url].val.body.url = url)
    /\ [][\A url \in Urls :
             /\ (\E c \in Connectors : Get(c, <<url>>)) => OthersUnchanged(url)
             /\ (\E pid \in Slots : promises[pid].key = url /\ FetchOk(pid))
                    => OthersUnchanged(url)
             /\ (\E pid \in Slots : promises[pid].key = url /\ FetchFail(pid))
                    => OthersUnchanged(url)
             /\ (nextTickQ # <<>> /\ Head(nextTickQ) = url /\ RefreshStart)
                    => OthersUnchanged(url)
             /\ RefreshOk(url) => OthersUnchanged(url)
             /\ RefreshFail(url) => OthersUnchanged(url)
             /\ (\E c \in Connectors, urls \in Asks :
                    /\ \A i \in DOMAIN urls : urls[i] # url
                    /\ Get(c, urls))
                    => /\ backend'[url] = backend[url]
                       /\ isBeingRefreshed(processMap', url) = isBeingRefreshed(processMap, url)]_vars

\* C20 witness: both keys have entries and were stale with their flags set;
\* the refresh of one has completed with success, rewriting its entry and
\* clearing its flag, and the flag and the entry of the other are as they were.
C20_Witness ==
    \E url \in Urls, other \in Urls :
        /\ url # other
        /\ writer[url] = "refresh" /\ ~isBeingRefreshed(processMap, url)
        /\ backend[url].val.body.url = url
        /\ writer[other] = "miss" /\ isBeingRefreshed(processMap, other)
        /\ backend[other].val.body.url = other

====
